---- MODULE Spec2Model ----
(***************************************************************************)
(* Model of libs/graphicsenv/GraphicsEnv.cpp: the process-wide GraphicsEnv *)
(* object, its setters, the two call_once-guarded namespace accessors and  *)
(* the ANGLE opt-in evaluation run by setAngleInfo.                        *)
(*                                                                         *)
(* Threads call the public methods.  A method that only touches fields is  *)
(* one step.  getDriverNamespace / getAngleNamespace are split at the      *)
(* std::call_once so that a caller arriving while the body runs is seen    *)
(* blocked, and setAngleInfo is split at every call that leaves the file   *)
(* (call_once, android_dlopen_ext, dlsym, the feature-support entry        *)
(* points, dlclose).  The fields are plain members without a lock, so two  *)
(* overlapping setAngleInfo calls are a data race; the model runs          *)
(* setAngleInfo calls one at a time and lets every other method interleave *)
(* with its steps.                                                         *)
(***************************************************************************)
EXTENDS Integers, FiniteSets, Sequences, TLC

\* ---------------------------------------------------------------- bounds
NumThreads == 2
MaxCalls == 2
MaxRulesLength == 2

\* ------------------------------------------------------- program constants
CURRENT_ANGLE_API_VERSION == 2
ANGLE_PREFER_ANGLE == "angle"
ANGLE_PREFER_NATIVE == "native"

\* ------------------------------------------------------------ value sets
Threads == 1..NumThreads
NoThread == {}
Null == "null"
Paths == {"", "p1", "p2"}
LayerPaths == {"", "l1", "l2"}
AppNamespaces == {"ns1", "ns2"}
AppNames == {"", "X", "Y"}
OptIns == {"", ANGLE_PREFER_ANGLE, ANGLE_PREFER_NATIVE}
\* Values the module may leave in rulesVersion.
RulesVersions == {1, 2}
\* Versions the module may leave in versionToUse.
Versions == {CURRENT_ANGLE_API_VERSION - 1, CURRENT_ANGLE_API_VERSION,
             CURRENT_ANGLE_API_VERSION + 1}

\* The feature-support entry points, in the order GET_SYMBOL resolves them.
SymVersion == "ANGLEGetFeatureSupportUtilAPIVersion"
V2Symbols == << "ANGLEAndroidParseRulesString", "ANGLEGetSystemInfo",
                "ANGLEAddDeviceInfoToSystemInfo", "ANGLEShouldBeUsedForApplication",
                "ANGLEFreeRulesHandle", "ANGLEFreeSystemInfoHandle" >>
V2SymbolSet == {V2Symbols[i] : i \in 1..Len(V2Symbols)}

VARIABLES
    \* GraphicsEnv members
    mDriverPath, mLayerPaths, mAppNamespace, mAnglePath, mAngleAppName, mAngleDeveloperOptIn,
    mRulesBuffer,        \* [size, nul]: vector size and index of the written '\0'
    mUseAngle, mDriverNamespace, mAngleNamespace,
    \* the function-local static std::once_flag of each accessor
    driverOnce, angleOnce,
    \* control state
    pc,                  \* per thread: where it is inside a method
    saiThread,           \* the set holding the thread inside setAngleInfo, if any
    \* locals of updateUseAngle / checkAngleRules of the call in progress
    featureSo, useAngle, rulesHandle, systemInfoHandle,
    \* history of the current / most recent setAngleInfo call
    lastCall,            \* its arguments
    lastOutcome,         \* the path the evaluation took
    negotiation,         \* what the version entry point reported
    resolved, invoked,   \* entry points found by dlsym / called
    rulesFrees, sysFrees,
    \* history of the process
    nCalls, evals, loads, unloads,
    driverBuilds, angleBuilds, driverReturned, angleReturned,
    lastQuery,
    loadAttempts,        \* android_dlopen_ext calls of the current / last setAngleInfo
    shouldUseCalls,      \* its ANGLEShouldBeUsedForApplication calls: arguments, answer
    rulesVersion,        \* local of checkAngleRules
    angleBuilder,        \* who ran the callable of getAngleNamespace
    firstDriverPath,     \* first non-empty argument of setDriverPath, "" if none
    lastDriverPathArg,   \* argument of the most recent setDriverPath
    layerHistory,        \* setLayerPaths calls: any, the first with paths, the last
    driverCalls          \* the callable of getDriverNamespace: its path, its platform calls

vars == << mDriverPath, mLayerPaths, mAppNamespace, mAnglePath, mAngleAppName, mAngleDeveloperOptIn,
           mRulesBuffer, mUseAngle, mDriverNamespace, mAngleNamespace,
           driverOnce, angleOnce, pc, saiThread,
           featureSo, useAngle, rulesHandle, systemInfoHandle,
           lastCall, lastOutcome, negotiation, resolved, invoked, rulesFrees, sysFrees,
           nCalls, evals, loads, unloads,
           driverBuilds, angleBuilds, driverReturned, angleReturned, lastQuery,
           loadAttempts, shouldUseCalls, rulesVersion, angleBuilder,
           firstDriverPath, lastDriverPathArg, layerHistory, driverCalls >>

driverPathVars == << mDriverPath, firstDriverPath, lastDriverPathArg >>
layerVars == << mLayerPaths, mAppNamespace, layerHistory >>
setterVars == << driverPathVars, layerVars >>
configVars == << mAnglePath, mAngleAppName, mAngleDeveloperOptIn, mRulesBuffer >>
driverVars == << mDriverNamespace, driverOnce, driverBuilds, driverReturned, driverCalls >>
angleNsVars == << mAngleNamespace, angleOnce, angleBuilds, angleReturned, angleBuilder >>
evalLocals == << featureSo, useAngle, rulesHandle, systemInfoHandle >>
evalHistory == << lastOutcome, negotiation, resolved, invoked, rulesFrees, sysFrees >>
evalGhost == << loadAttempts, shouldUseCalls, rulesVersion >>
callCounters == << nCalls, evals, loads, unloads >>

NoLayerCall == [set |-> FALSE, appNamespace |-> Null, layerPaths |-> ""]
NoQuery == [kind |-> "none", arg |-> "", ret |-> FALSE]

\* The GraphicsEnv object is a function-local static: zero-initialised, strings empty.
Init ==
    /\ mDriverPath = ""
    /\ mLayerPaths = ""
    /\ mAppNamespace = Null
    /\ mAnglePath = ""
    /\ mAngleAppName = ""
    /\ mAngleDeveloperOptIn = ""
    /\ mRulesBuffer = [size |-> 0, nul |-> 0]
    /\ mUseAngle = FALSE
    /\ mDriverNamespace = Null
    /\ mAngleNamespace = Null
    /\ driverOnce = "idle"
    /\ angleOnce = "idle"
    /\ pc = [t \in Threads |-> "idle"]
    /\ saiThread = NoThread
    /\ featureSo = Null
    /\ useAngle = FALSE
    /\ rulesHandle = Null
    /\ systemInfoHandle = Null
    /\ lastCall = [path |-> "", appName |-> "", developerOptIn |-> "",
                   rulesLength |-> 0, numRead |-> 0, enabled |-> FALSE]
    /\ lastOutcome = "none"
    /\ negotiation = "none"
    /\ resolved = {}
    /\ invoked = {}
    /\ rulesFrees = 0
    /\ sysFrees = 0
    /\ nCalls = 0
    /\ evals = 0
    /\ loads = 0
    /\ unloads = 0
    /\ driverBuilds = 0
    /\ driverCalls = [path |-> "", calls |-> << >>]
    /\ angleBuilds = 0
    /\ driverReturned = {}
    /\ angleReturned = {}
    /\ lastQuery = NoQuery
    /\ loadAttempts = 0
    /\ shouldUseCalls = << >>
    /\ rulesVersion = 0
    /\ angleBuilder = "none"
    /\ firstDriverPath = ""
    /\ lastDriverPathArg = ""
    /\ layerHistory = [called |-> FALSE, first |-> NoLayerCall, last |-> NoLayerCall]

\* ------------------------------------------------------------ setDriverPath
\* Variant without the guard of line 147.
SetDriverPathOverwrite(old, path) == path

\* Lines 147-153: the path member after a call with argument path.
SetDriverPath(old, path) == IF old # "" THEN old ELSE path

setDriverPath(t, path) ==
    /\ pc[t] = "idle"
    /\ mDriverPath' = SetDriverPath(mDriverPath, path)
    /\ firstDriverPath' = IF firstDriverPath = "" THEN path ELSE firstDriverPath
    /\ lastDriverPathArg' = path
    /\ UNCHANGED << layerVars, evalGhost, configVars, mUseAngle, driverVars, angleNsVars, pc,
                    saiThread, evalLocals, lastCall, evalHistory, callCounters,
                    lastQuery >>

\* ------------------------------------------------------------ setLayerPaths
\* Variant that never takes the else branch of line 342.
LayerPathsUnsetAlways(stored) == TRUE

\* Line 339: the test that lets a call store its arguments.
LayerPathsUnset(stored) == stored = ""

setLayerPaths(t, appNamespace, layerPaths) ==
    /\ pc[t] = "idle"
    /\ mLayerPaths' = IF LayerPathsUnset(mLayerPaths) THEN layerPaths ELSE mLayerPaths
    /\ mAppNamespace' = IF LayerPathsUnset(mLayerPaths) THEN appNamespace
                        ELSE mAppNamespace
    /\ LET call == [set |-> TRUE, appNamespace |-> appNamespace,
                    layerPaths |-> layerPaths] IN
         layerHistory' = [called |-> TRUE,
                          first |-> IF ~layerHistory.first.set /\ layerPaths # ""
                                    THEN call ELSE layerHistory.first,
                          last |-> call]
    /\ UNCHANGED << driverPathVars, evalGhost, configVars, mUseAngle, driverVars, angleNsVars, pc,
                    saiThread, evalLocals, lastCall, evalHistory, callCounters,
                    lastQuery >>

\* ------------------------------------------------------------ std::call_once
\* call_once variants: a caller that does not block while the callable runs,
\* and a once_flag that is not shared between calls.
CallOnceNoWait(flag) ==
    IF flag = "idle" THEN "run" ELSE "pass"

CallOnceAlways(flag) == "run"

\* What a caller of std::call_once does for a given state of the once_flag:
\* run the callable, block until the running callable has returned, or pass.
CallOnce(flag) ==
    IF flag = "idle" THEN "run"
    ELSE IF flag = "running" THEN "wait"
    ELSE "pass"

\* ------------------------------------------------------- getDriverNamespace
\* Result of the callable of getDriverNamespace for the outcomes of the
\* platform calls it makes: the namespace it leaves in mDriverNamespace.
DriverNamespaceBodySkipVndksp(path, vndk, llndk, linkDefault, vndksp, linkVndk) ==
    IF path = "" THEN Null
    ELSE IF ~vndk THEN Null
    ELSE IF ~llndk THEN Null
    ELSE IF ~linkDefault THEN Null
    ELSE IF ~linkVndk THEN Null
    ELSE path

DriverNamespaceBody(path, vndk, llndk, linkDefault, vndksp, linkVndk) ==
    IF path = "" THEN Null
    ELSE IF ~vndk THEN Null
    ELSE IF ~llndk THEN Null
    ELSE IF ~linkDefault THEN Null
    ELSE IF ~vndksp THEN Null
    ELSE IF ~linkVndk THEN Null
    ELSE path

\* The platform calls the callable makes, in order, each with its outcome
\* (a non-null namespace, a non-empty list, a successful link).
PlatformCall(name, ok) == [call |-> name, ok |-> ok]

DriverNamespaceCalls(path, vndk, create, llndk, linkDefault, vndksp, linkVndk) ==
    LET exported == << PlatformCall("android_get_exported_namespace", vndk) >>
        created == exported \o << PlatformCall("android_create_namespace", create) >>
        llndkRead == created \o << PlatformCall("getSystemNativeLibraries(LLNDK)", llndk) >>
        defaultLinked == llndkRead \o << PlatformCall("android_link_namespaces(default)", linkDefault) >>
        vndkspRead == defaultLinked \o << PlatformCall("getSystemNativeLibraries(VNDKSP)", vndksp) >>
        vndkLinked == vndkspRead \o << PlatformCall("android_link_namespaces(vndk)", linkVndk) >>
    IN  IF path = "" THEN << >>
        ELSE IF ~vndk THEN exported
        ELSE IF ~llndk THEN llndkRead
        ELSE IF ~linkDefault THEN defaultLinked
        ELSE IF ~vndksp THEN vndkspRead
        ELSE vndkLinked

\* android_link_namespaces fails when the namespace to link from is null.
LinkOutcomes(from) == IF from THEN BOOLEAN ELSE {FALSE}

getDriverNamespace(t) ==
    /\ pc[t] = "idle"
    /\ LET how == CallOnce(driverOnce) IN
         /\ driverOnce' = IF how = "run" THEN "running" ELSE driverOnce
         /\ pc' = [pc EXCEPT ![t] = IF how = "run" THEN "driverBody"
                                    ELSE IF how = "wait" THEN "driverWait"
                                    ELSE "idle"]
         /\ driverReturned' = IF how = "pass" THEN driverReturned \cup {mDriverNamespace}
                              ELSE driverReturned
    /\ UNCHANGED << setterVars, evalGhost, configVars, mUseAngle, mDriverNamespace, driverBuilds, driverCalls,
                    angleNsVars, saiThread, evalLocals, lastCall, evalHistory,
                    callCounters, lastQuery >>

\* The callable runs to its end, the flag is set, and the caller returns the member.
driverNamespaceBuild(t) ==
    /\ pc[t] = "driverBody"
    /\ \E vndk, create, llndk, vndksp \in BOOLEAN :
         \E linkDefault \in LinkOutcomes(create), linkVndk \in LinkOutcomes(create) :
           /\ mDriverNamespace' = DriverNamespaceBody(mDriverPath, vndk, llndk, linkDefault,
                                                   vndksp, linkVndk)
           /\ driverCalls' = [path |-> mDriverPath,
                              calls |-> DriverNamespaceCalls(mDriverPath, vndk, create, llndk,
                                                             linkDefault, vndksp, linkVndk)]
    /\ driverOnce' = "done"
    /\ driverBuilds' = driverBuilds + 1
    /\ driverReturned' = driverReturned \cup {mDriverNamespace'}
    /\ pc' = [pc EXCEPT ![t] = "idle"]
    /\ UNCHANGED << setterVars, evalGhost, configVars, mUseAngle, angleNsVars, saiThread,
                    evalLocals, lastCall, evalHistory, callCounters, lastQuery >>

\* A caller blocked in call_once resumes when the callable has returned.
driverNamespaceWait(t) ==
    /\ pc[t] = "driverWait"
    /\ driverOnce = "done"
    /\ driverReturned' = driverReturned \cup {mDriverNamespace}
    /\ pc' = [pc EXCEPT ![t] = "idle"]
    /\ UNCHANGED << setterVars, evalGhost, configVars, mUseAngle, mDriverNamespace, driverOnce,
                    driverBuilds, driverCalls, angleNsVars, saiThread, evalLocals, lastCall,
                    evalHistory, callCounters, lastQuery >>

\* -------------------------------------------------------- getAngleNamespace
\* Result of the callable of getAngleNamespace: the namespace it leaves in
\* mAngleNamespace (android_create_namespace may return nullptr).
AngleNamespaceBody(path, created) ==
    IF path = "" THEN Null
    ELSE IF created THEN path
    ELSE Null

\* Where a thread continues after getAngleNamespace: loadLibrary called it
\* (line 159) for the thread inside setAngleInfo, a direct caller returns.
AfterAngleNamespace(t) == IF saiThread = {t} THEN "dlopen" ELSE "idle"

getAngleNamespace(t) ==
    /\ \/ pc[t] = "idle"
       \/ pc[t] = "loadLibrary"
    /\ LET how == CallOnce(angleOnce) IN
         /\ angleOnce' = IF how = "run" THEN "running" ELSE angleOnce
         /\ pc' = [pc EXCEPT ![t] = IF how = "run" THEN "angleBody"
                                    ELSE IF how = "wait" THEN "angleWait"
                                    ELSE AfterAngleNamespace(t)]
         /\ angleReturned' = IF how = "pass" THEN angleReturned \cup {mAngleNamespace}
                             ELSE angleReturned
    /\ UNCHANGED << setterVars, evalGhost, configVars, mUseAngle, driverVars,
                    mAngleNamespace, angleBuilds, angleBuilder, saiThread, evalLocals, lastCall, evalHistory,
                    callCounters, lastQuery >>

angleNamespaceBuild(t) ==
    /\ pc[t] = "angleBody"
    /\ \E created \in BOOLEAN :
         mAngleNamespace' = AngleNamespaceBody(mAnglePath, created)
    /\ angleOnce' = "done"
    /\ angleBuilds' = angleBuilds + 1
    /\ angleBuilder' = IF saiThread = {t} THEN "loadLibrary" ELSE "accessor"
    /\ angleReturned' = angleReturned \cup {mAngleNamespace'}
    /\ pc' = [pc EXCEPT ![t] = AfterAngleNamespace(t)]
    /\ UNCHANGED << setterVars, evalGhost, configVars, mUseAngle, driverVars, saiThread,
                    evalLocals, lastCall, evalHistory, callCounters, lastQuery >>

angleNamespaceWait(t) ==
    /\ pc[t] = "angleWait"
    /\ angleOnce = "done"
    /\ angleReturned' = angleReturned \cup {mAngleNamespace}
    /\ pc' = [pc EXCEPT ![t] = AfterAngleNamespace(t)]
    /\ UNCHANGED << setterVars, evalGhost, configVars, mUseAngle, driverVars,
                    mAngleNamespace, angleOnce, angleBuilds, angleBuilder, saiThread, evalLocals, lastCall,
                    evalHistory, callCounters, lastQuery >>

\* ------------------------------------------------------------ shouldUseAngle
\* Variant without the test of line 264.
ShouldUseAngleNoInitCheck == mUseAngle

ShouldUseAngle ==
    IF mAngleAppName = "" THEN FALSE ELSE mUseAngle

\* Variant without the application-name comparison.
ShouldUseAngleAppNoCheck(appName) == ShouldUseAngle

ShouldUseAngleApp(appName) ==
    IF appName # mAngleAppName THEN FALSE ELSE ShouldUseAngle

shouldUseAngleApp(t, appName) ==
    /\ pc[t] = "idle"
    /\ lastQuery' = [kind |-> "app", arg |-> appName, ret |-> ShouldUseAngleApp(appName)]
    /\ UNCHANGED << setterVars, evalGhost, configVars, mUseAngle, driverVars, angleNsVars, pc,
                    saiThread, evalLocals, lastCall, evalHistory, callCounters >>

shouldUseAngle(t) ==
    /\ pc[t] = "idle"
    /\ lastQuery' = [kind |-> "noarg", arg |-> "", ret |-> ShouldUseAngle]
    /\ UNCHANGED << setterVars, evalGhost, configVars, mUseAngle, driverVars, angleNsVars, pc,
                    saiThread, evalLocals, lastCall, evalHistory, callCounters >>

\* -------------------------------------------------------------- setAngleInfo
\* Variant that keeps the first non-empty path, as setDriverPath does.
SetAnglePathOnce(old, path) == IF old # "" THEN old ELSE path

\* Line 312: the path member after a call with argument path.
SetAnglePath(old, path) == path

\* Variant that sizes the vector by what was read.
ReadRulesShrink(rulesLength, numRead) ==
    [size |-> (IF numRead < 0 THEN 0 ELSE numRead) + 1,
     nul |-> IF numRead < 0 THEN 0 ELSE numRead]

\* Lines 319-332: the vector is rulesLength + 1 long, read() returned numRead
\* (negative on error), the terminator is written at the clamped count.
ReadRules(rulesLength, numRead) ==
    [size |-> rulesLength + 1, nul |-> IF numRead < 0 THEN 0 ELSE numRead]

\* Variant that consults debug.angle.enable before the developer opt-in.
UpdateUseAngleBranchFlagFirst(optIn, enabled) ==
    IF ~enabled THEN "disabled"
    ELSE IF optIn = ANGLE_PREFER_ANGLE THEN "forceAngle"
    ELSE IF optIn = ANGLE_PREFER_NATIVE THEN "forceNative"
    ELSE "load"

\* Variant that does not consult debug.angle.enable.
UpdateUseAngleBranchAlwaysLoad(optIn, enabled) ==
    IF optIn = ANGLE_PREFER_ANGLE THEN "forceAngle"
    ELSE IF optIn = ANGLE_PREFER_NATIVE THEN "forceNative"
    ELSE "load"

\* The branch updateUseAngle takes (lines 278-304) for the developer opt-in
\* and the value of debug.angle.enable.
UpdateUseAngleBranch(optIn, enabled) ==
    IF optIn = ANGLE_PREFER_ANGLE THEN "forceAngle"
    ELSE IF optIn = ANGLE_PREFER_NATIVE THEN "forceNative"
    ELSE IF enabled THEN "load"
    ELSE "disabled"

\* Variant without the reset of line 273.
ResetUseAngleKeep(old) == old

\* Line 273: mUseAngle at the start of updateUseAngle.
ResetUseAngle(old) == FALSE

\* Line 332: whether the index the terminator is written at lies in the vector.
TerminatorInBounds(buffer) == buffer.nul >= 0 /\ buffer.nul < buffer.size

\* Lines 311-335 and updateUseAngle up to the call of loadLibrary.  A
\* terminator written outside the vector is undefined behaviour: the write
\* either goes unnoticed or ends the process before updateUseAngle.
setAngleInfo(t, path, appName, developerOptIn, rulesLength, numRead) ==
    /\ pc[t] = "idle"
    /\ saiThread = NoThread
    /\ nCalls < MaxCalls
    /\ mAnglePath' = SetAnglePath(mAnglePath, path)
    /\ mAngleAppName' = appName
    /\ mAngleDeveloperOptIn' = developerOptIn
    /\ mRulesBuffer' = ReadRules(rulesLength, numRead)
    /\ nCalls' = nCalls + 1
    /\ \E enabled \in BOOLEAN,
          crash \in IF TerminatorInBounds(ReadRules(rulesLength, numRead))
                    THEN {FALSE} ELSE BOOLEAN :
         LET branch == IF crash THEN "crashed"
                       ELSE UpdateUseAngleBranch(developerOptIn, enabled) IN
           /\ lastCall' = [path |-> path, appName |-> appName,
                           developerOptIn |-> developerOptIn,
                           rulesLength |-> rulesLength, numRead |-> numRead,
                           enabled |-> enabled]
           /\ evals' = IF crash THEN evals ELSE evals + 1
           /\ mUseAngle' = IF crash THEN mUseAngle
                           ELSE IF branch = "forceAngle" THEN TRUE
                           ELSE IF branch = "forceNative" THEN FALSE
                           ELSE ResetUseAngle(mUseAngle)
           /\ lastOutcome' = IF branch = "load" THEN "none"
                             ELSE IF branch \in {"disabled", "crashed"} THEN branch
                             ELSE "override"
           /\ pc' = IF crash THEN [u \in Threads |-> "crashed"]
                    ELSE [pc EXCEPT ![t] = IF branch = "load" THEN "loadLibrary"
                                           ELSE "idle"]
           /\ saiThread' = IF branch = "load" THEN {t} ELSE NoThread
    /\ featureSo' = Null
    /\ useAngle' = FALSE
    /\ rulesHandle' = Null
    /\ rulesVersion' = 0
    /\ systemInfoHandle' = Null
    /\ negotiation' = "none"
    /\ resolved' = {}
    /\ invoked' = {}
    /\ rulesFrees' = 0
    /\ sysFrees' = 0
    /\ loadAttempts' = 0
    /\ shouldUseCalls' = << >>
    /\ lastQuery' = NoQuery
    /\ UNCHANGED << setterVars, driverVars, angleNsVars, loads, unloads >>

\* Variant that starts from "use ANGLE".
UseAngleInitTrue == TRUE

\* Line 201: the value checkAngleRules returns when the version switch is left early.
UseAngleInit == FALSE

\* loadLibrary lines 162-173.  android_dlopen_ext with ANDROID_DLEXT_USE_NAMESPACE
\* and a null library_namespace fails; otherwise the file may or may not load.
loadLibrary(t) ==
    /\ pc[t] = "dlopen"
    /\ \E opened \in BOOLEAN :
         LET so == IF mAngleNamespace # Null /\ opened THEN "featureSo" ELSE Null IN
           /\ featureSo' = so
           /\ loadAttempts' = loadAttempts + 1
           /\ loads' = IF so # Null THEN loads + 1 ELSE loads
           /\ lastOutcome' = IF so # Null THEN lastOutcome
                             ELSE IF mAngleNamespace = Null THEN "noNamespace"
                             ELSE "loadFailed"
           /\ pc' = [pc EXCEPT ![t] = IF so # Null THEN "checkAngleRules" ELSE "idle"]
           /\ saiThread' = IF so # Null THEN saiThread ELSE NoThread
    /\ UNCHANGED << setterVars, shouldUseCalls, rulesVersion, configVars, mUseAngle,
                    driverVars, angleNsVars,
                    useAngle, rulesHandle, systemInfoHandle, lastCall, negotiation,
                    resolved, invoked, rulesFrees, sysFrees, nCalls, evals, unloads,
                    lastQuery >>

\* checkAngleRules lines 182-189: dlsym of the version entry point.
checkAngleRules(t) ==
    /\ pc[t] = "checkAngleRules"
    /\ \E found \in BOOLEAN :
         /\ resolved' = IF found THEN resolved \cup {SymVersion} ELSE resolved
         /\ lastOutcome' = IF found THEN lastOutcome ELSE "noVersionSymbol"
         /\ pc' = [pc EXCEPT ![t] = IF found THEN "negotiate" ELSE "dlclose"]
    /\ useAngle' = FALSE
    /\ UNCHANGED << setterVars, evalGhost, configVars, mUseAngle, driverVars, angleNsVars,
                    saiThread, featureSo, rulesHandle, systemInfoHandle, lastCall,
                    negotiation, invoked, rulesFrees, sysFrees, callCounters, lastQuery >>

\* Variant that does not test the return value of the version call.
VersionDispatchIgnoreResult(ok, versionToUse) ==
    IF versionToUse = 2 THEN "v2" ELSE "unsupportedVersion"

\* Lines 193-203 and 243: what follows the version call, for its return value
\* and the version it left in versionToUse.
VersionDispatch(ok, versionToUse) ==
    IF ~ok THEN "versionFailed"
    ELSE IF versionToUse = 2 THEN "v2"
    ELSE "unsupportedVersion"

negotiateVersion(t) ==
    /\ pc[t] = "negotiate"
    /\ invoked' = invoked \cup {SymVersion}
    /\ \E ok \in BOOLEAN, versionToUse \in Versions :
         LET d == VersionDispatch(ok, versionToUse) IN
           /\ negotiation' = IF ok THEN "accepted" ELSE "failed"
           /\ lastOutcome' = IF d = "v2" THEN lastOutcome ELSE d
           /\ useAngle' = IF d = "versionFailed" THEN FALSE ELSE UseAngleInit
           /\ pc' = [pc EXCEPT ![t] = IF d = "v2" THEN "getSymbols" ELSE "dlclose"]
    /\ rulesHandle' = Null
    /\ rulesVersion' = 0
    /\ systemInfoHandle' = Null
    /\ UNCHANGED << setterVars, loadAttempts, shouldUseCalls, configVars, mUseAngle,
                    driverVars, angleNsVars,
                    saiThread, featureSo, lastCall, resolved, rulesFrees, sysFrees,
                    callCounters, lastQuery >>

\* Lines 216-221: GET_SYMBOL resolves the six entry points in order and leaves
\* the switch at the first one dlsym does not find; found of them are present
\* before the first missing one.
getSymbols(t) ==
    /\ pc[t] = "getSymbols"
    /\ \E found \in 0..Len(V2Symbols) :
         /\ resolved' = resolved \cup {V2Symbols[i] : i \in 1..found}
         /\ lastOutcome' = IF found = Len(V2Symbols) THEN lastOutcome ELSE "missingSymbol"
         /\ pc' = [pc EXCEPT ![t] = IF found = Len(V2Symbols) THEN "parseRules"
                                    ELSE "dlclose"]
    /\ UNCHANGED << setterVars, evalGhost, configVars, mUseAngle, driverVars, angleNsVars,
                    saiThread, evalLocals, lastCall, negotiation, invoked, rulesFrees,
                    sysFrees, callCounters, lastQuery >>

\* Lines 225-228.
parseRules(t) ==
    /\ pc[t] = "parseRules"
    /\ invoked' = invoked \cup {V2Symbols[1]}
    /\ \E ok \in BOOLEAN, version \in RulesVersions :
         /\ rulesHandle' = IF ok THEN "rules" ELSE rulesHandle
         /\ rulesVersion' = IF ok THEN version ELSE rulesVersion
         /\ lastOutcome' = IF ok THEN lastOutcome ELSE "parseFailed"
         /\ pc' = [pc EXCEPT ![t] = IF ok THEN "getSystemInfo" ELSE "dlclose"]
    /\ UNCHANGED << setterVars, loadAttempts, shouldUseCalls, configVars, mUseAngle,
                    driverVars, angleNsVars,
                    saiThread, featureSo, useAngle, systemInfoHandle, lastCall,
                    negotiation, resolved, rulesFrees, sysFrees, callCounters, lastQuery >>

\* Lines 229-232.
getSystemInfo(t) ==
    /\ pc[t] = "getSystemInfo"
    /\ invoked' = invoked \cup {V2Symbols[2]}
    /\ \E ok \in BOOLEAN :
         /\ systemInfoHandle' = IF ok THEN "systemInfo" ELSE systemInfoHandle
         /\ lastOutcome' = IF ok THEN lastOutcome ELSE "systemInfoFailed"
         /\ pc' = [pc EXCEPT ![t] = IF ok THEN "addDeviceInfo" ELSE "dlclose"]
    /\ UNCHANGED << setterVars, evalGhost, configVars, mUseAngle, driverVars, angleNsVars,
                    saiThread, featureSo, useAngle, rulesHandle, lastCall,
                    negotiation, resolved, rulesFrees, sysFrees, callCounters, lastQuery >>

\* Lines 233-236.
addDeviceInfo(t) ==
    /\ pc[t] = "addDeviceInfo"
    /\ invoked' = invoked \cup {V2Symbols[3]}
    /\ \E ok \in BOOLEAN :
         /\ lastOutcome' = IF ok THEN lastOutcome ELSE "addDeviceInfoFailed"
         /\ pc' = [pc EXCEPT ![t] = IF ok THEN "evaluate" ELSE "dlclose"]
    /\ UNCHANGED << setterVars, evalGhost, configVars, mUseAngle, driverVars, angleNsVars,
                    saiThread, evalLocals, lastCall, negotiation, resolved, rulesFrees,
                    sysFrees, callCounters, lastQuery >>

\* Variant that drops the value returned at line 237.
evaluateDiscard(t) ==
    /\ pc[t] = "evaluate"
    /\ invoked' = invoked \cup {V2Symbols[4], V2Symbols[5], V2Symbols[6]}
    /\ \E answer \in BOOLEAN :
         /\ useAngle' = useAngle
         /\ shouldUseCalls' = Append(shouldUseCalls,
                                     [rulesHandle |-> rulesHandle,
                                      rulesVersion |-> rulesVersion,
                                      systemInfoHandle |-> systemInfoHandle,
                                      appName |-> mAngleAppName,
                                      answer |-> answer])
    /\ rulesFrees' = rulesFrees + 1
    /\ sysFrees' = sysFrees + 1
    /\ lastOutcome' = "evaluated"
    /\ pc' = [pc EXCEPT ![t] = "dlclose"]
    /\ UNCHANGED << setterVars, loadAttempts, rulesVersion, configVars, mUseAngle, driverVars, angleNsVars,
                    saiThread, featureSo, rulesHandle, systemInfoHandle, lastCall,
                    negotiation, resolved, callCounters, lastQuery >>

\* Lines 237-240: the evaluation and the two frees.
evaluate(t) ==
    /\ pc[t] = "evaluate"
    /\ invoked' = invoked \cup {V2Symbols[4], V2Symbols[5], V2Symbols[6]}
    /\ \E answer \in BOOLEAN :
         /\ useAngle' = answer
         /\ shouldUseCalls' = Append(shouldUseCalls,
                                     [rulesHandle |-> rulesHandle,
                                      rulesVersion |-> rulesVersion,
                                      systemInfoHandle |-> systemInfoHandle,
                                      appName |-> mAngleAppName,
                                      answer |-> answer])
    /\ rulesFrees' = rulesFrees + 1
    /\ sysFrees' = sysFrees + 1
    /\ lastOutcome' = "evaluated"
    /\ pc' = [pc EXCEPT ![t] = "dlclose"]
    /\ UNCHANGED << setterVars, loadAttempts, rulesVersion, configVars, mUseAngle, driverVars, angleNsVars,
                    saiThread, featureSo, rulesHandle, systemInfoHandle, lastCall,
                    negotiation, resolved, callCounters, lastQuery >>

\* Variant that forgets the dlclose of line 300.
updateUseAngleFinishNoClose(t) ==
    /\ pc[t] = "dlclose"
    /\ mUseAngle' = useAngle
    /\ pc' = [pc EXCEPT ![t] = "idle"]
    /\ saiThread' = NoThread
    /\ lastQuery' = NoQuery
    /\ UNCHANGED << setterVars, evalGhost, configVars, driverVars, angleNsVars, evalLocals,
                    lastCall, evalHistory, callCounters >>

\* Variant that loads the library again when the answer was "do not use".
updateUseAngleFinishRetry(t) ==
    /\ pc[t] = "dlclose"
    /\ mUseAngle' = useAngle
    /\ featureSo' = Null
    /\ unloads' = unloads + 1
    /\ pc' = [pc EXCEPT ![t] = IF useAngle THEN "idle" ELSE "dlopen"]
    /\ saiThread' = IF useAngle THEN NoThread ELSE saiThread
    /\ lastQuery' = NoQuery
    /\ UNCHANGED << setterVars, evalGhost, configVars, driverVars, angleNsVars, useAngle,
                    rulesHandle, systemInfoHandle, lastCall, evalHistory,
                    nCalls, evals, loads >>

\* updateUseAngle lines 299-301: checkAngleRules has returned useAngle; store
\* it, dlclose the library, and setAngleInfo returns.
updateUseAngleFinish(t) ==
    /\ pc[t] = "dlclose"
    /\ mUseAngle' = useAngle
    /\ featureSo' = Null
    /\ unloads' = unloads + 1
    /\ pc' = [pc EXCEPT ![t] = "idle"]
    /\ saiThread' = NoThread
    /\ lastQuery' = NoQuery
    /\ UNCHANGED << setterVars, evalGhost, configVars, driverVars, angleNsVars, useAngle,
                    rulesHandle, systemInfoHandle, lastCall, evalHistory,
                    nCalls, evals, loads >>

\* ------------------------------------------------------------ specifications
\* The steps of the evaluation that setAngleInfo started.
evaluationStep(t) ==
    \/ loadLibrary(t)
    \/ checkAngleRules(t)
    \/ negotiateVersion(t)
    \/ getSymbols(t)
    \/ parseRules(t)
    \/ getSystemInfo(t)
    \/ addDeviceInfo(t)
    \/ evaluate(t)
    \/ updateUseAngleFinish(t)

angleNamespaceStep(t) ==
    \/ getAngleNamespace(t)
    \/ angleNamespaceBuild(t)
    \/ angleNamespaceWait(t)

driverNamespaceStep(t) ==
    \/ getDriverNamespace(t)
    \/ driverNamespaceBuild(t)
    \/ driverNamespaceWait(t)

\* The ANGLE side of the object: configuration by setAngleInfo with every
\* path, application name and opt-in, the evaluation, the ANGLE namespace and
\* the two queries.  No step of the evaluation reads mRulesBuffer (the module
\* that receives it answers freely), so the rules are read in full here and
\* the outcomes of the read are enumerated in SpecRules.
Next ==
    \/ \E t \in Threads, p \in Paths, a \in AppNames, o \in OptIns :
         setAngleInfo(t, p, a, o, MaxRulesLength, MaxRulesLength)
    \/ \E t \in Threads : evaluationStep(t)
    \/ \E t \in Threads : angleNamespaceStep(t)
    \/ \E t \in Threads, a \in AppNames : shouldUseAngleApp(t, a)
    \/ \E t \in Threads : shouldUseAngle(t)

Spec == Init /\ [][Next]_vars

\* The two namespaces: both accessors called from every thread, interleaved
\* with the setters of the paths they read.  setAngleInfo is called for one
\* application and a full read of the rules.
NextDomains ==
    \/ \E t \in Threads, p \in {"", "p1"} : setDriverPath(t, p)
    \/ \E t \in Threads : driverNamespaceStep(t)
    \/ \E t \in Threads : angleNamespaceStep(t)
    \/ \E t \in Threads, p \in {"", "p2"} :
         setAngleInfo(t, p, "X", "", MaxRulesLength, MaxRulesLength)
    \/ \E t \in Threads : evaluationStep(t)

SpecDomains == Init /\ [][NextDomains]_vars

\* The read of the rules: every requested length from -1 on and every result
\* of read() (an error, or a count up to the length), for one path and
\* application.
NextRules ==
    \/ \E t \in Threads, o \in OptIns, len \in -1..MaxRulesLength :
         \E n \in -1..(IF len < 0 THEN 0 ELSE len) : setAngleInfo(t, "p1", "X", o, len, n)
    \/ \E t \in Threads : evaluationStep(t)
    \/ \E t \in Threads : angleNamespaceStep(t)

SpecRules == Init /\ [][NextRules]_vars

\* The guarded setters, with the accessor that reads the driver path.
NextSetters ==
    \/ \E t \in Threads, p \in Paths : setDriverPath(t, p)
    \/ \E t \in Threads, ns \in AppNamespaces, l \in LayerPaths : setLayerPaths(t, ns, l)
    \/ \E t \in Threads : driverNamespaceStep(t)

SpecSetters == Init /\ [][NextSetters]_vars

\* ------------------------------------------------------------------ claims
Idle == saiThread = NoThread
OverrideUnset == lastCall.developerOptIn \notin {ANGLE_PREFER_ANGLE, ANGLE_PREFER_NATIVE}

C2_PathSetOnce ==
    [][ mAnglePath # "" => mAnglePath' = mAnglePath ]_vars

\* C2 amended: every setAngleInfo call stores its path argument (the last
\* call wins, also over a non-empty path), and no other step changes mAnglePath.
C2_PathLastCallWins ==
    [][ IF nCalls' # nCalls THEN mAnglePath' = lastCall'.path
                            ELSE mAnglePath' = mAnglePath ]_vars

C2_Witness ==
    /\ nCalls = 2
    /\ mAngleNamespace = "p1"
    /\ mAnglePath = "p2"
    /\ lastCall.path = "p2"

\* C3: once checkAngleRules has returned, every handle the module handed out
\* (rules, system info) has been passed to its free entry point exactly once.
CheckAngleRulesReturned ==
    \A t \in Threads : pc[t] \notin {"checkAngleRules", "negotiate", "getSymbols",
                                     "parseRules", "getSystemInfo", "addDeviceInfo",
                                     "evaluate"}

C3_HandlesFreedOnce ==
    CheckAngleRulesReturned =>
        /\ rulesHandle # Null => rulesFrees = 1
        /\ systemInfoHandle # Null => sysFrees = 1

\* C4: after a setAngleInfo call with developerOptIn "angle" the cached
\* mUseAngle is true, after one with "native" it is false.
C4_OverridePrecedence ==
    nCalls > 0 =>
        /\ lastCall.developerOptIn = ANGLE_PREFER_ANGLE => mUseAngle
        /\ lastCall.developerOptIn = ANGLE_PREFER_NATIVE => ~mUseAngle

C4_Witness ==
    /\ nCalls = 2
    /\ lastCall.developerOptIn = ANGLE_PREFER_ANGLE
    /\ mUseAngle
    /\ mAngleNamespace = Null
    /\ angleOnce = "done"

\* C5: when a setAngleInfo call without override has returned after the
\* namespace was absent, the load failed, the version entry point was missing
\* or reported failure, the version was not 2, an entry point was missing, or
\* parse-rules / get-system-info / add-device-info failed, mUseAngle is false
\* and shouldUseAngle() returns false.
FailedOutcomes ==
    {"noNamespace", "loadFailed", "noVersionSymbol", "versionFailed",
     "unsupportedVersion", "missingSymbol", "parseFailed", "systemInfoFailed",
     "addDeviceInfoFailed"}

C5_FailClosed ==
    (Idle /\ nCalls > 0 /\ OverrideUnset /\
     (lastOutcome \in FailedOutcomes \/ mAngleNamespace = Null)) =>
        /\ ~mUseAngle
        /\ ~ShouldUseAngle

C5_Witness ==
    /\ Idle
    /\ nCalls = 2
    /\ OverrideUnset
    /\ lastOutcome = "addDeviceInfoFailed"
    /\ mAngleAppName # ""
    /\ ~mUseAngle

\* C6: shouldUseAngle(appName) with a name other than mAngleAppName returns
\* false, whatever mUseAngle holds.
C6_IdentityCheck ==
    /\ \A a \in AppNames : a # mAngleAppName => ~ShouldUseAngleApp(a)
    /\ (lastQuery.kind = "app" /\ lastQuery.arg # mAngleAppName) => ~lastQuery.ret

C6_Witness ==
    /\ lastQuery.kind = "app"
    /\ lastQuery.arg = "X"
    /\ mAngleAppName = "Y"
    /\ mUseAngle
    /\ ~lastQuery.ret

\* C7: the library is unloaded as often as it was loaded whenever no
\* setAngleInfo call is in progress, no handle is held then, and inside a
\* call at most one load is outstanding.
C7_LoadUnloadMatched ==
    /\ unloads <= loads
    /\ loads <= unloads + 1
    /\ featureSo # Null <=> loads = unloads + 1
    /\ Idle => (loads = unloads /\ featureSo = Null)

C7_Witness ==
    /\ Idle
    /\ loads = 2
    /\ unloads = 2
    /\ lastOutcome = "missingSymbol"

\* C8: after the version entry point reported failure, the result is false
\* and no other entry point has been resolved or invoked in that evaluation.
C8_VersionFailureStops ==
    negotiation = "failed" =>
        /\ resolved = {SymVersion}
        /\ invoked = {SymVersion}
        /\ ~useAngle
        /\ Idle => ~mUseAngle

C8_Witness ==
    /\ negotiation = "failed"
    /\ Idle
    /\ unloads = loads
    /\ loads > 0

\* C9: the callable of each accessor runs at most once, a caller returns only
\* after that run has completed, and all callers get the same handle.
C9_BuiltOnce ==
    /\ driverBuilds <= 1
    /\ angleBuilds <= 1
    /\ driverReturned # {} =>
         (driverOnce = "done" /\ driverBuilds = 1 /\ driverReturned = {mDriverNamespace})
    /\ angleReturned # {} =>
         (angleOnce = "done" /\ angleBuilds = 1 /\ angleReturned = {mAngleNamespace})
    /\ \A t \in Threads : pc[t] = "dlopen" => angleOnce = "done"

C9_Witness ==
    /\ \E t \in Threads : pc[t] = "driverWait"
    /\ driverOnce = "done"
    /\ angleOnce = "done"
    /\ driverReturned = {"p1"}
    /\ angleReturned = {"p2"}

\* C10: once the callable of an accessor has run and left the namespace
\* absent, the namespace stays absent and every call returns absent, whatever
\* path is stored afterwards.
C10_FailedBuildTerminal ==
    [][ /\ (driverOnce = "done" /\ mDriverNamespace = Null) =>
              (driverOnce' = "done" /\ mDriverNamespace' = Null
               /\ driverReturned' \subseteq {Null})
        /\ (angleOnce = "done" /\ mAngleNamespace = Null) =>
              (angleOnce' = "done" /\ mAngleNamespace' = Null
               /\ angleReturned' \subseteq {Null}) ]_vars

C10_Witness ==
    /\ driverOnce = "done"
    /\ angleOnce = "done"
    /\ mDriverPath # ""
    /\ mAnglePath # ""
    /\ driverReturned = {Null}
    /\ angleReturned = {Null}
    /\ \A t \in Threads : pc[t] = "idle"

\* C11: the stored driver path is, at every moment, the first non-empty
\* argument passed to setDriverPath (empty while there was none).
C11_DriverPathFirstWins ==
    mDriverPath = firstDriverPath

C11_Witness ==
    /\ mDriverPath = "p1"
    /\ firstDriverPath = "p1"
    /\ lastDriverPathArg = "p2"

\* C12 as stated: once setLayerPaths has been called, with any arguments, no
\* step changes the stored layer paths or the stored namespace reference.
C12_LayerPathsSetOnce ==
    [][ layerHistory.called =>
          (mLayerPaths' = mLayerPaths /\ mAppNamespace' = mAppNamespace) ]_vars

\* C12 amended: the stored layer paths and namespace reference are those of
\* the first setLayerPaths call with a non-empty paths string; until such a
\* call the paths stay empty and the reference is that of the latest call.
C12_LayerPathsFirstNonEmptyWins ==
    IF layerHistory.first.set
    THEN /\ mLayerPaths = layerHistory.first.layerPaths
         /\ mAppNamespace = layerHistory.first.appNamespace
    ELSE /\ mLayerPaths = ""
         /\ mAppNamespace = layerHistory.last.appNamespace

C12_Witness ==
    /\ mLayerPaths = "l1"
    /\ mAppNamespace = "ns1"
    /\ layerHistory.last = [set |-> TRUE, appNamespace |-> "ns2", layerPaths |-> "l2"]

\* C13 as stated: after a short read of n < L bytes the rules buffer is n + 1
\* bytes long.
C13_ShortReadShrinksBuffer ==
    (nCalls > 0 /\ lastCall.numRead >= 0 /\ lastCall.numRead < lastCall.rulesLength) =>
        mRulesBuffer.size = lastCall.numRead + 1

\* C13 amended: after a short read of n < L bytes the rules buffer is L + 1
\* bytes long with the terminator at index n, and the call has gone on to run
\* the evaluation.
C13_ShortReadTolerated ==
    (nCalls > 0 /\ lastCall.numRead >= 0 /\ lastCall.numRead < lastCall.rulesLength) =>
        /\ mRulesBuffer.size = lastCall.rulesLength + 1
        /\ mRulesBuffer.nul = lastCall.numRead
        /\ evals = nCalls
        /\ lastOutcome # "crashed"
        /\ Idle => lastOutcome # "none"

C13_Witness ==
    /\ Idle
    /\ lastCall.rulesLength = 2
    /\ lastCall.numRead = 1
    /\ mRulesBuffer = [size |-> 3, nul |-> 1]
    /\ lastOutcome = "evaluated"

\* C14: after every setAngleInfo call, whatever the requested length and the
\* result of the read, the terminator index lies inside the rules buffer.
C14_TerminatorInsideBuffer ==
    nCalls > 0 => (0 <= mRulesBuffer.nul /\ mRulesBuffer.nul < mRulesBuffer.size)

\* C15: while the configured application name is empty, shouldUseAngle()
\* (and shouldUseAngle(appName) for every name) returns false, whatever
\* mUseAngle holds.
C15_UnconfiguredFailsClosed ==
    mAngleAppName = "" =>
        /\ ~ShouldUseAngle
        /\ \A a \in AppNames : ~ShouldUseAngleApp(a)
        /\ ~lastQuery.ret

C15_Witness ==
    /\ mAngleAppName = ""
    /\ lastCall.appName = ""
    /\ lastCall.developerOptIn = ANGLE_PREFER_ANGLE
    /\ mUseAngle
    /\ lastQuery.kind = "noarg"
    /\ ~lastQuery.ret

\* C17: a setAngleInfo call with a developer override, or without override
\* while debug.angle.enable is off, makes no dlopen attempt, resolves and
\* invokes no entry point, and in the second case leaves mUseAngle false.
C17_NoLoadWithoutNeed ==
    (nCalls > 0 /\ lastOutcome # "crashed" /\ (~OverrideUnset \/ ~lastCall.enabled)) =>
        /\ Idle
        /\ loadAttempts = 0
        /\ featureSo = Null
        /\ resolved = {}
        /\ invoked = {}
        /\ OverrideUnset => ~mUseAngle

C17_Witness ==
    /\ nCalls = 2
    /\ OverrideUnset
    /\ ~lastCall.enabled
    /\ loads = 1
    /\ unloads = 1
    /\ loadAttempts = 0
    /\ ~mUseAngle

\* C18: when a call without override has gone through the whole version-2
\* path, ANGLEShouldBeUsedForApplication was called exactly once, with the
\* handle and version parse-rules produced, the handle get-system-info
\* produced and the configured application name, and mUseAngle is its answer.
C18_SuccessPath ==
    (Idle /\ OverrideUnset /\ lastOutcome = "evaluated") =>
        /\ lastCall.enabled
        /\ negotiation = "accepted"
        /\ V2SymbolSet \subseteq resolved
        /\ Len(shouldUseCalls) = 1
        /\ shouldUseCalls[1].rulesHandle = "rules"
        /\ shouldUseCalls[1].rulesVersion = rulesVersion
        /\ rulesVersion \in RulesVersions
        /\ shouldUseCalls[1].systemInfoHandle = "systemInfo"
        /\ shouldUseCalls[1].appName = lastCall.appName
        /\ mUseAngle = shouldUseCalls[1].answer

C18_Witness ==
    /\ Idle
    /\ lastOutcome = "evaluated"
    /\ lastCall.appName = "Y"
    /\ rulesVersion = 2
    /\ Len(shouldUseCalls) = 1
    /\ shouldUseCalls[1].answer
    /\ mUseAngle

\* C19: once the callable of getAngleNamespace has run, no step changes the
\* namespace or what callers get; a setAngleInfo call that reaches loadLibrary
\* while the callable has not run runs it inside the call, and it then builds
\* from the path that call stored.
C19_AngleNamespacePinned ==
    [][ /\ angleOnce = "done" =>
             /\ angleOnce' = "done"
             /\ mAngleNamespace' = mAngleNamespace
             /\ angleReturned' \subseteq {mAngleNamespace}
        /\ \A t \in Threads :
             /\ (pc[t] = "loadLibrary" /\ angleOnce = "idle" /\ pc'[t] # pc[t]) =>
                    pc'[t] = "angleBody"
             /\ (pc[t] = "angleBody" /\ saiThread = {t} /\ pc'[t] # pc[t]) =>
                    /\ pc'[t] = "dlopen"
                    /\ angleBuilder' = "loadLibrary"
                    /\ mAngleNamespace' \in {Null, lastCall.path} ]_vars

C19_Witness ==
    /\ Idle
    /\ nCalls = 2
    /\ angleBuilder = "loadLibrary"
    /\ mAngleNamespace = "p1"
    /\ mAnglePath = "p2"
    /\ angleReturned = {"p1"}

\* C20: whenever no setAngleInfo call is in progress, the configured name and
\* the cached decision are those of the most recent call: its override, or
\* the answer the module gave in that call for that call's application name,
\* or false; so a query never returns a decision of an earlier call.
DecisionOfLastCall ==
    IF lastCall.developerOptIn = ANGLE_PREFER_ANGLE THEN TRUE
    ELSE IF lastCall.developerOptIn = ANGLE_PREFER_NATIVE THEN FALSE
    ELSE IF lastOutcome = "evaluated" THEN shouldUseCalls[Len(shouldUseCalls)].answer
    ELSE FALSE

C20_DecisionOfLastCall ==
    (Idle /\ nCalls > 0 /\ lastOutcome # "crashed") =>
        /\ mAngleAppName = lastCall.appName
        /\ mUseAngle = DecisionOfLastCall
        /\ \A i \in 1..Len(shouldUseCalls) : shouldUseCalls[i].appName = lastCall.appName
        /\ \A a \in AppNames :
             ShouldUseAngleApp(a) => (a = lastCall.appName /\ DecisionOfLastCall)
        /\ lastQuery.ret => (lastQuery.kind = "noarg" \/ lastQuery.arg = lastCall.appName)

C20_Witness ==
    /\ Idle
    /\ nCalls = 2
    /\ lastCall.appName = "Y"
    /\ OverrideUnset
    /\ ~lastCall.enabled
    /\ loads = 1
    /\ lastQuery = [kind |-> "app", arg |-> "Y", ret |-> FALSE]

\* C16: the namespace getDriverNamespace caches is non-null exactly when the
\* driver path was non-empty, the "vndk" namespace was exported, the LLNDK
\* list was non-empty, the link to the default namespace succeeded, the
\* VNDK-SP list was non-empty and the link to the "vndk" namespace succeeded;
\* and when the LLNDK list is empty or the default link fails, the callable
\* neither reads the VNDK-SP list nor links to the "vndk" namespace.
Called(name) == \E i \in 1..Len(driverCalls.calls) : driverCalls.calls[i].call = name
Succeeded(name) ==
    \E i \in 1..Len(driverCalls.calls) : driverCalls.calls[i] = PlatformCall(name, TRUE)
Failed(name) ==
    \E i \in 1..Len(driverCalls.calls) : driverCalls.calls[i] = PlatformCall(name, FALSE)

C16_DriverNamespaceOutcome ==
    driverOnce = "done" =>
        /\ mDriverNamespace # Null <=>
              /\ driverCalls.path # ""
              /\ Succeeded("android_get_exported_namespace")
              /\ Succeeded("getSystemNativeLibraries(LLNDK)")
              /\ Succeeded("android_link_namespaces(default)")
              /\ Succeeded("getSystemNativeLibraries(VNDKSP)")
              /\ Succeeded("android_link_namespaces(vndk)")
        /\ mDriverNamespace # Null => mDriverNamespace = driverCalls.path
        /\ driverReturned \subseteq {mDriverNamespace}
        /\ (Failed("getSystemNativeLibraries(LLNDK)") \/ Failed("android_link_namespaces(default)")) =>
              /\ ~Called("getSystemNativeLibraries(VNDKSP)")
              /\ ~Called("android_link_namespaces(vndk)")

C16_Witness ==
    /\ driverOnce = "done"
    /\ driverCalls.path = "p1"
    /\ Succeeded("getSystemNativeLibraries(LLNDK)")
    /\ Failed("android_link_namespaces(default)")
    /\ Len(driverCalls.calls) = 4
    /\ mDriverNamespace = Null
    /\ driverReturned = {Null}
====
